---- MODULE Spec2Model ----
(***************************************************************************)
(* Drively: the session-aggregation reducer (src/contexts/DrivingContext), *)
(* the streak engine (src/utils/streaks), the time utilities, the store    *)
(* (utils/storage: loadData / saveData) and the provider's save effect.    *)
(*                                                                         *)
(* Seven specifications share this module:                                 *)
(*   Spec       the reducer driven by the screens' handlers and the clock  *)
(*   SpecStore  one store operation at a time, one file-system call per    *)
(*              step, with I/O failures and process teardown               *)
(*   SpecCoord  the provider: transitions, the save effect and the         *)
(*              saveData calls it leaves in flight                         *)
(*   SpecStreak the streak functions applied to bounded logs and clocks    *)
(*   SpecDays   the app over several days: drives, freeze days, restarts   *)
(*   SpecTime   the time functions applied to bounded strings              *)
(*   SpecBoot   the provider from its mount: the initial load, the save    *)
(*              effect, transitions and the settings screen's reset        *)
(* Each specification freezes the variables of the others.                 *)
(*                                                                         *)
(* Calendar dates (YYYY-MM-DD strings in the code) are day numbers.        *)
(* Hour totals (floats in the code, duration / 60) are kept in sixtieths   *)
(* of an hour, i.e. the sum of the durations in minutes; the code adds the *)
(* same terms in the same order on every path, so the scaling is exact.    *)
(***************************************************************************)
EXTENDS Integers, Sequences, FiniteSets, TLC

VARIABLES
    state,      \* the reducer's state (useReducer in DrivingProvider)
    today,      \* the local calendar day of the device clock
    tzWest,     \* TRUE when the device's time zone is behind UTC
    stamp,      \* how many ids Date.now() has handed out
    dirExists,  \* the data directory exists
    primary,    \* content of data.json
    backup,     \* content of backup.json
    lpc,        \* position of the running loadData call
    ldata,      \* the value loadData has parsed and is about to return
    lret,       \* what the last loadData call returned
    spc,        \* position of the running saveData call
    sdata,      \* the document the running saveData call was given
    scaller,    \* who awaits the running saveData call
    sret,       \* what the last saveData call returned
    hist,       \* observations of the running store operation
    mem,        \* the provider's in-memory document
    dirty,      \* a transition has happened that no effect has picked up yet
    saves,      \* the saveData calls started by the save effect
    cfail,      \* some saveData call started by the effect has failed
    sessions,   \* the drives handed to a streak function
    answer,     \* the streak function called last and what it returned
    alerts,     \* "Use Freeze Day?" confirmations on screen, not yet answered
    usedNow,    \* freeze days used so far in the calendar month of today
    frozeSince, \* a freeze day was used after the last drive was logged
    targs,      \* the strings handed to a time function
    tanswer,    \* the time function called last and what it returned
    loading,    \* the provider's state.loading
    cpc,        \* position of the running clearAllData call, or what it returned
    wiped       \* RESET_DATA has been dispatched

redVars == <<state, today, tzWest, stamp>>
fileVars == <<dirExists, primary, backup>>
opVars == <<lpc, ldata, lret, spc, sdata, scaller, sret, hist>>
coordVars == <<mem, dirty, saves, cfail>>
fnVars == <<sessions, answer>>
dayVars == <<alerts, usedNow, frozeSince>>
timeVars == <<targs, tanswer>>
bootVars == <<loading, cpc, wiped>>
vars == <<redVars, fileVars, opVars, coordVars, fnVars, dayVars, timeVars, bootVars>>

----------------------------------------------------------------------------
(* Bounds of the model *)

MaxDay == 1
MaxDrives == 2
MaxFreezeUses == 1
MaxDocs == 2
MaxTransitions == 2
MaxDate == 4
MaxLogLen == 4
LastDay == 3
DaysPerMonth == 3
MaxLogged == 3
MaxAlerts == 2
MaxFreezeDaysUsed == 12

(* Inputs the handlers draw from *)
Durations == {30, 90}
GoalPresets == {[dayHours |-> 40, nightHours |-> 10]}
TemperatureUnits == {"imperial"}
GoalEdits == {[dayHours |-> 25, nightHours |-> 0]}
NightWindows == {[nightTimeStart |-> "22:00", nightTimeEnd |-> "05:00"]}

----------------------------------------------------------------------------
(* Values *)

Null == "null"
NullDate == -1

Spread(a, b) ==
    [k \in (DOMAIN a) \cup (DOMAIN b) |-> IF k \in DOMAIN b THEN b[k] ELSE a[k]]

Max2(a, b) == IF a >= b THEN a ELSE b

RECURSIVE DescSeq(_)
DescSeq(S) ==
    IF S = {} THEN <<>>
    ELSE LET m == CHOOSE x \in S : \A y \in S : y <= x
         IN <<m>> \o DescSeq(S \ {m})

RECURSIVE AscSeq(_)
AscSeq(S) ==
    IF S = {} THEN <<>>
    ELSE LET m == CHOOSE x \in S : \A y \in S : x <= y
         IN <<m>> \o AscSeq(S \ {m})

RECURSIVE SumDuration(_, _, _)
SumDuration(drives, night, i) ==
    IF i > Len(drives) THEN 0
    ELSE (IF drives[i].isNightDrive = night THEN drives[i].duration ELSE 0)
         + SumDuration(drives, night, i + 1)

----------------------------------------------------------------------------
(* utils/streaks.js *)

\* new Date("YYYY-MM-DD") is UTC midnight; setHours(0,0,0,0) then moves it to
\* the local midnight of the local day that instant falls on: the same day
\* east of (or at) UTC, the day before west of UTC.
LocalMidnightDay(date, west) == IF west THEN date - 1 ELSE date

RECURSIVE StreakWalk(_, _, _, _, _, _)
StreakWalk(dates, i, streak, checkDate, yesterday, west) ==
    IF i > Len(dates) THEN streak
    ELSE LET driveDate == LocalMidnightDay(dates[i], west)
         IN IF driveDate = checkDate \/ driveDate = yesterday
            THEN StreakWalk(dates, i + 1, streak + 1, checkDate - 1, yesterday, west)
            ELSE IF driveDate < checkDate
                 THEN streak
                 ELSE StreakWalk(dates, i + 1, streak, checkDate, yesterday, west)

\* A walk that starts at the most recent drive date instead of today.
calculateCurrentStreakFromLatest(drives, now, west) ==
    IF Len(drives) = 0 THEN 0
    ELSE LET uniqueDates == DescSeq({drives[i].date : i \in 1..Len(drives)})
             latest == LocalMidnightDay(uniqueDates[1], west)
         IN StreakWalk(uniqueDates, 1, 0, latest, latest - 1, west)

calculateCurrentStreak(drives, now, west) ==
    IF Len(drives) = 0 THEN 0
    ELSE LET uniqueDates == DescSeq({drives[i].date : i \in 1..Len(drives)})
         IN StreakWalk(uniqueDates, 1, 0, now, now - 1, west)

RECURSIVE LongestScan(_, _, _, _)
LongestScan(dates, i, currentStreak, longestStreak) ==
    IF i > Len(dates) THEN longestStreak
    ELSE IF dates[i] - dates[i - 1] = 1
         THEN LongestScan(dates, i + 1, currentStreak + 1,
                          Max2(longestStreak, currentStreak + 1))
         ELSE LongestScan(dates, i + 1, 1, longestStreak)

\* A longest streak that counts every unique date.
calculateLongestStreakAllDates(drives) ==
    Cardinality({drives[i].date : i \in 1..Len(drives)})

calculateLongestStreak(drives) ==
    IF Len(drives) = 0 THEN 0
    ELSE LET uniqueDates == AscSeq({drives[i].date : i \in 1..Len(drives)})
         IN LongestScan(uniqueDates, 2, 1, 1)

MaxFreezeDaysPerMonth == 10

canUseFreezeDay(freezeDaysUsedThisMonth) ==
    freezeDaysUsedThisMonth < MaxFreezeDaysPerMonth

\* The calendar month (and year) a local day lies in; the model's months
\* have DaysPerMonth days.
MonthOf(day) == day \div DaysPerMonth

\* new Date(lastResetDate) is UTC midnight; getMonth() and getFullYear() read
\* it in local time.
shouldResetMonthlyFreezeCounter(lastResetDate, now, west) ==
    IF lastResetDate = NullDate THEN TRUE
    ELSE MonthOf(LocalMidnightDay(lastResetDate, west)) # MonthOf(now)

getDaysSinceLastDrive(lastDriveDate, now, west) ==
    IF lastDriveDate = NullDate THEN 0
    ELSE now - LocalMidnightDay(lastDriveDate, west)

shouldSuggestFreezeDay(lastDriveDate, freezeDaysUsedThisMonth, now, west) ==
    /\ getDaysSinceLastDrive(lastDriveDate, now, west) >= 2
    /\ canUseFreezeDay(freezeDaysUsedThisMonth)

\* formatDateForStorage() and getCurrentDate(): the UTC date of "now", which is
\* the local day or the day after west of UTC, the local day or the day
\* before east of it.
UtcDates(now, west) ==
    IF west THEN {now, now + 1} ELSE {d \in {now - 1, now} : d >= 0}

----------------------------------------------------------------------------
(* contexts/DrivingContext.js: the state and the reducer *)

initialState ==
    [user |-> [licenseType |-> Null, licenseDate |-> NullDate,
               goalDayHours |-> 50, goalNightHours |-> 10,
               completedDayHours |-> 0, completedNightHours |-> 0,
               onboardingComplete |-> FALSE],
     drives |-> <<>>,
     streaks |-> [current |-> 0, longest |-> 0, lastDriveDate |-> NullDate,
                  freezeDaysUsed |-> 0, freezeDaysThisMonth |-> 0,
                  lastFreezeReset |-> NullDate],
     settings |-> [nightTimeStart |-> "18:00", nightTimeEnd |-> "06:00",
                   backupReminder |-> TRUE, lastBackupDate |-> NullDate,
                   temperatureUnit |-> "metric"],
     loading |-> TRUE,
     error |-> Null]

\* utils/storage.js DEFAULT_DATA: no lastFreezeReset, no temperatureUnit.
DEFAULT_DATA ==
    [user |-> [licenseType |-> Null, licenseDate |-> NullDate,
               goalDayHours |-> 50, goalNightHours |-> 10,
               completedDayHours |-> 0, completedNightHours |-> 0,
               onboardingComplete |-> FALSE],
     drives |-> <<>>,
     streaks |-> [current |-> 0, longest |-> 0, lastDriveDate |-> NullDate,
                  freezeDaysUsed |-> 0, freezeDaysThisMonth |-> 0],
     settings |-> [nightTimeStart |-> "18:00", nightTimeEnd |-> "06:00",
                   backupReminder |-> TRUE, lastBackupDate |-> NullDate],
     version |-> "1.0.1"]

ReduceLoadData(s, payload) ==
    Spread(Spread(s, payload), [loading |-> FALSE, error |-> Null])

ReduceSetUserInfo(s, payload) ==
    [s EXCEPT !.user = Spread(s.user, payload)]

\* ADD_DRIVE that books every drive as a day drive.
ReduceAddDriveAllDay(s, payload, now, west) ==
    [s EXCEPT
        !.drives = Append(s.drives, payload),
        !.streaks = Spread(s.streaks,
            [current |-> calculateCurrentStreak(Append(s.drives, payload), now, west),
             longest |-> Max2(s.streaks.longest,
                              calculateLongestStreak(Append(s.drives, payload))),
             lastDriveDate |-> payload.date]),
        !.user = Spread(s.user,
            [completedDayHours |-> s.user.completedDayHours + payload.duration])]

\* ADD_DRIVE that refreshes the current streak and leaves the longest alone.
ReduceAddDriveKeepLongest(s, payload, now, west) ==
    [s EXCEPT
        !.drives = Append(s.drives, payload),
        !.streaks = Spread(s.streaks,
            [current |-> calculateCurrentStreak(Append(s.drives, payload), now, west),
             lastDriveDate |-> payload.date]),
        !.user = Spread(s.user,
            [completedDayHours |-> s.user.completedDayHours
                 + (IF payload.isNightDrive THEN 0 ELSE payload.duration),
             completedNightHours |-> s.user.completedNightHours
                 + (IF payload.isNightDrive THEN payload.duration ELSE 0)])]

ReduceAddDrive(s, payload, now, west) ==
    LET newDrives == Append(s.drives, payload)
        updatedStreaks ==
            Spread(s.streaks,
                   [current |-> calculateCurrentStreak(newDrives, now, west),
                    longest |-> Max2(s.streaks.longest,
                                     calculateLongestStreak(newDrives)),
                    lastDriveDate |-> payload.date])
    IN [s EXCEPT
           !.drives = newDrives,
           !.streaks = updatedStreaks,
           !.user = Spread(s.user,
               [completedDayHours |-> s.user.completedDayHours
                    + (IF payload.isNightDrive THEN 0 ELSE payload.duration),
                completedNightHours |-> s.user.completedNightHours
                    + (IF payload.isNightDrive THEN payload.duration ELSE 0)])]

\* The derived fields UPDATE_DRIVE and DELETE_DRIVE recompute from the log.
Recomputed(s, drives, now, west) ==
    [s EXCEPT
        !.drives = drives,
        !.streaks = Spread(s.streaks,
            [current |-> calculateCurrentStreak(drives, now, west),
             longest |-> calculateLongestStreak(drives)]),
        !.user = Spread(s.user,
            [completedDayHours |-> SumDuration(drives, FALSE, 1),
             completedNightHours |-> SumDuration(drives, TRUE, 1)])]

ReduceUpdateDrive(s, payload, now, west) ==
    LET updatedDrives ==
            [i \in 1..Len(s.drives) |->
                IF s.drives[i].id = payload.id THEN payload ELSE s.drives[i]]
    IN Recomputed(s, updatedDrives, now, west)

\* DELETE_DRIVE that removes the drive and leaves the hour totals alone.
ReduceDeleteDriveKeepTotals(s, payload, now, west) ==
    LET Keep(drive) == drive.id # payload
    IN [Recomputed(s, SelectSeq(s.drives, Keep), now, west) EXCEPT !.user = s.user]

ReduceDeleteDrive(s, payload, now, west) ==
    LET Keep(drive) == drive.id # payload
    IN Recomputed(s, SelectSeq(s.drives, Keep), now, west)

ReduceUseFreezeDay(s) ==
    [s EXCEPT !.streaks = Spread(s.streaks,
        [freezeDaysUsed |-> s.streaks.freezeDaysUsed + 1,
         freezeDaysThisMonth |-> s.streaks.freezeDaysThisMonth + 1])]

ReduceUpdateSettings(s, payload) ==
    [s EXCEPT !.settings = Spread(s.settings, payload)]

ReduceCompleteOnboarding(s) ==
    [s EXCEPT !.user = Spread(s.user, [onboardingComplete |-> TRUE])]

ReduceResetData(s) ==
    Spread(initialState, [loading |-> FALSE])

drivingReducer(s, action, now, west) ==
    CASE action.type = "LOAD_DATA" -> ReduceLoadData(s, action.payload)
      [] action.type = "SET_USER_INFO" -> ReduceSetUserInfo(s, action.payload)
      [] action.type = "ADD_DRIVE" -> ReduceAddDrive(s, action.payload, now, west)
      [] action.type = "UPDATE_DRIVE" -> ReduceUpdateDrive(s, action.payload, now, west)
      [] action.type = "DELETE_DRIVE" -> ReduceDeleteDrive(s, action.payload, now, west)
      [] action.type = "USE_FREEZE_DAY" -> ReduceUseFreezeDay(s)
      [] action.type = "UPDATE_SETTINGS" -> ReduceUpdateSettings(s, action.payload)
      [] action.type = "COMPLETE_ONBOARDING" -> ReduceCompleteOnboarding(s)
      [] action.type = "RESET_DATA" -> ReduceResetData(s)
      [] OTHER -> s

Dispatch(s, type, payload) ==
    drivingReducer(s, [type |-> type, payload |-> payload], today, tzWest)

\* initializeData on a first run: loadData returns DEFAULT_DATA, whose streaks
\* carry no lastFreezeReset, so the monthly counter is reset and stamped.
FirstRunData(resetDate) ==
    [DEFAULT_DATA EXCEPT !.streaks = Spread(DEFAULT_DATA.streaks,
        [freezeDaysThisMonth |-> 0, lastFreezeReset |-> resetDate])]

----------------------------------------------------------------------------
(* The screens' handlers: what dispatches each transition, and when *)

\* AppNavigator mounts the Onboarding screen only while onboardingComplete is
\* false, and the tabs (Dashboard, LogDrive, History, Settings) only after.
OnboardingShown == ~state.loading /\ ~state.user.onboardingComplete
MainTabsShown == ~state.loading /\ state.user.onboardingComplete

DriveIds(drives) == {drives[i].id : i \in 1..Len(drives)}

\* The dates a drive can carry: LogDriveScreen keeps getCurrentDate() from the
\* moment the form was last mounted or reset, so any UTC date up to now.
FormDates == {d \in 0..(MaxDay + 1) : \E u \in UtcDates(today, tzWest) : d <= u}

\* OnboardingScreen.handleComplete: three dispatches in one handler.
HandleComplete ==
    /\ OnboardingShown
    /\ \E preset \in GoalPresets, unit \in TemperatureUnits,
          licenseDate \in UtcDates(today, tzWest) :
         state' = Dispatch(
                    Dispatch(
                      Dispatch(state, "SET_USER_INFO",
                               [licenseType |-> "learner",
                                licenseDate |-> licenseDate,
                                goalDayHours |-> preset.dayHours,
                                goalNightHours |-> preset.nightHours,
                                completedDayHours |-> 0,
                                completedNightHours |-> 0]),
                      "UPDATE_SETTINGS", [temperatureUnit |-> unit]),
                    "COMPLETE_ONBOARDING", Null)
    /\ UNCHANGED <<today, tzWest, stamp, fileVars, opVars, coordVars, fnVars, dayVars, timeVars, bootVars>>

\* SettingsScreen.handleSaveGoals
HandleSaveGoals ==
    /\ MainTabsShown
    /\ \E preset \in GoalEdits :
         state' = Dispatch(state, "SET_USER_INFO",
                           [goalDayHours |-> preset.dayHours,
                            goalNightHours |-> preset.nightHours])
    /\ UNCHANGED <<today, tzWest, stamp, fileVars, opVars, coordVars, fnVars, dayVars, timeVars, bootVars>>

\* SettingsScreen.handleSaveNightTime
HandleUpdateSettings ==
    /\ MainTabsShown
    /\ \E payload \in NightWindows :
         state' = Dispatch(state, "UPDATE_SETTINGS", payload)
    /\ UNCHANGED <<today, tzWest, stamp, fileVars, opVars, coordVars, fnVars, dayVars, timeVars, bootVars>>

\* LogDriveScreen.handleSkillsSubmit; the id is Date.now().toString(), later
\* than every id handed out before.
HandleSkillsSubmit ==
    /\ MainTabsShown
    /\ stamp < MaxDrives
    /\ stamp' = stamp + 1
    /\ \E date \in FormDates, duration \in Durations, isNight \in BOOLEAN :
         state' = Dispatch(state, "ADD_DRIVE",
                           [id |-> stamp + 1, date |-> date,
                            duration |-> duration, isNightDrive |-> isNight])
    /\ UNCHANGED <<today, tzWest, fileVars, opVars, coordVars, fnVars, dayVars, timeVars, bootVars>>

\* updateDrive of the context value: a whole drive replaces the logged one
\* that has its id.
UpdateDrive ==
    /\ MainTabsShown
    /\ \E id \in DriveIds(state.drives), date \in FormDates, duration \in Durations,
          isNight \in BOOLEAN :
         state' = Dispatch(state, "UPDATE_DRIVE",
                           [id |-> id, date |-> date,
                            duration |-> duration, isNightDrive |-> isNight])
    /\ UNCHANGED <<today, tzWest, stamp, fileVars, opVars, coordVars, fnVars, dayVars, timeVars, bootVars>>

\* DriveHistoryScreen.handleDeleteDrive
HandleDeleteDrive ==
    /\ MainTabsShown
    /\ \E id \in DriveIds(state.drives) :
         state' = Dispatch(state, "DELETE_DRIVE", id)
    /\ UNCHANGED <<today, tzWest, stamp, fileVars, opVars, coordVars, fnVars, dayVars, timeVars, bootVars>>

\* DashboardScreen.handleFreezeDay with its confirmation answered at once by
\* "Use Freeze Day"; the button is rendered while shouldSuggestFreezeDay holds.
HandleFreezeDay ==
    /\ MainTabsShown
    /\ shouldSuggestFreezeDay(state.streaks.lastDriveDate,
                              state.streaks.freezeDaysThisMonth, today, tzWest)
    /\ canUseFreezeDay(state.streaks.freezeDaysThisMonth)
    /\ state.streaks.freezeDaysUsed < MaxFreezeUses
    /\ state' = Dispatch(state, "USE_FREEZE_DAY", Null)
    /\ UNCHANGED <<today, tzWest, stamp, fileVars, opVars, coordVars, fnVars, dayVars, timeVars, bootVars>>

\* SettingsScreen.handleResetData, its RESET_DATA dispatch
HandleResetData ==
    /\ MainTabsShown
    /\ state' = Dispatch(state, "RESET_DATA", Null)
    /\ UNCHANGED <<today, tzWest, stamp, fileVars, opVars, coordVars, fnVars, dayVars, timeVars, bootVars>>

\* Midnight passes on the device.
ClockTick ==
    /\ today < MaxDay
    /\ today' = today + 1
    /\ UNCHANGED <<state, tzWest, stamp, fileVars, opVars, coordVars, fnVars, dayVars, timeVars, bootVars>>

----------------------------------------------------------------------------
(* File contents *)

Absent == [kind |-> "absent"]
Garbage == [kind |-> "garbage"]
Partial == [kind |-> "partial"]

Json(data) == [kind |-> "json", value |-> data]

\* The value of an object member that was read from a field the weather
\* service's answer did not carry.
Undefined == "undefined"

\* JSON.stringify leaves out the members of an object whose value is undefined.
DropUndefined(obj) ==
    [k \in {m \in DOMAIN obj : obj[m] # Undefined} |-> obj[k]]

\* The text of one drive: weatherData is the only member built from fields
\* read off a fetched answer.
StringifyDrive(drive) ==
    IF "weatherData" \in DOMAIN drive
    THEN [drive EXCEPT !.weatherData = DropUndefined(drive.weatherData)]
    ELSE drive

\* A file's text is kept as the value JSON.parse reads back from it.
\* JSON.stringify(data, null, 2) of a document of strings, numbers, booleans,
\* nulls, arrays and objects, and JSON.parse of a file's text.
JsonStringify(data) ==
    IF "drives" \in DOMAIN data
    THEN Json([data EXCEPT !.drives =
                  [i \in 1..Len(data.drives) |-> StringifyDrive(data.drives[i])]])
    ELSE Json(data)
Parses(content) == content.kind = "json"
JsonParse(content) == content.value

NoDoc == [kind |-> "none"]

\* A document the provider saves: the default document with one drive in it.
SavedDoc(n) ==
    [DEFAULT_DATA EXCEPT
        !.drives = <<[id |-> n, date |-> 0, duration |-> 30, isNightDrive |-> FALSE]>>,
        !.user.completedDayHours = 30]

\* fetchWeatherData's result when the service's answer has no visibility.
WeatherInfo ==
    [description |-> "clear sky", visibility |-> Undefined, units |-> "metric"]

\* A document whose drive was logged with that weatherData.
WeatherDoc ==
    [DEFAULT_DATA EXCEPT
        !.drives = <<[id |-> 1, date |-> 0, duration |-> 30, isNightDrive |-> FALSE,
                      weatherData |-> WeatherInfo]>>,
        !.user.completedDayHours = 30]

SavedDocs == {SavedDoc(n) : n \in 1..MaxDocs} \cup {WeatherDoc}

RequiredKeys == {"user", "drives", "streaks", "settings"}

DropKey(data, key) == [k \in (DOMAIN data) \ {key} |-> data[k]]

\* Documents that parse but lack a required key.
InvalidDocs == {DropKey(SavedDoc(1), k) : k \in RequiredKeys}

\* loadData's structural check: !data.user || !data.drives || ...
ValidStructure(data) == \A k \in RequiredKeys : k \in DOMAIN data

FileContents ==
    {Absent, Garbage}
        \cup {JsonStringify(d) : d \in SavedDocs \cup {DEFAULT_DATA} \cup InvalidDocs}

\* A file that holds a structurally valid document.
HoldsValid(content) == Parses(content) /\ ValidStructure(JsonParse(content))

----------------------------------------------------------------------------
(* utils/storage.js: saveData, one file-system call per step *)

NoTorn == [kind |-> "none"]

IdleHist ==
    [loaded |-> FALSE, just |-> "none", lfault |-> FALSE, sfault |-> FALSE,
     sprim0 |-> Absent, lprim0 |-> Absent, lback0 |-> Absent,
     lastOk |-> NoDoc, torn |-> NoTorn, saved |-> NoDoc, lsaved |-> NoDoc,
     export |-> "none", exported |-> NoDoc]

\* saveData that overwrites without the backup copy.
SaveAfterInfoNoBackup(exists) == "write"

\* What saveData does next once getInfoAsync(MAIN_DATA_FILE) has answered.
SaveAfterInfo(exists) == IF exists THEN "copy" ELSE "write"

\* A catch block that reports success.
SaveCaughtAsSuccess == "true"

\* What saveData's catch block hands to the caller.
SaveCaught == "false"

\* The file left behind by a writeAsStringAsync or copyAsync that has started
\* and not finished: the platform's write is not atomic.
Unfinished == Partial

\* Calling saveData(data): it runs up to its first await.
CallSave(data, caller) ==
    /\ spc' = "ensure"
    /\ sdata' = data
    /\ scaller' = caller
    /\ sret' = "none"

\* saveData returns `value`; a loadData call awaiting it returns its own value.
SaveReturns(value, fault) ==
    /\ spc' = "idle"
    /\ sret' = value
    /\ UNCHANGED <<sdata, scaller>>
    /\ IF scaller = "load"
       THEN /\ lpc' = "idle"
            /\ lret' = ldata
            /\ hist' = [hist EXCEPT !.just = "load", !.loaded = TRUE,
                                    !.sfault = fault,
                                    !.lfault = hist.lfault \/ fault]
            /\ UNCHANGED ldata
       ELSE /\ hist' = [hist EXCEPT !.just = "save", !.sfault = fault,
                                    !.lastOk = IF value = "true" THEN sdata ELSE NoDoc,
                                    !.saved = IF value = "true" THEN sdata ELSE NoDoc]
            /\ UNCHANGED <<lpc, ldata, lret>>

SaveEnsure ==
    /\ spc = "ensure"
    /\ \/ /\ dirExists' = TRUE
          /\ spc' = "info"
          /\ UNCHANGED <<primary, backup, lpc, ldata, lret, sdata, scaller, sret, hist>>
       \/ /\ SaveReturns(SaveCaught, TRUE)
          /\ UNCHANGED fileVars
    /\ UNCHANGED <<redVars, coordVars, fnVars, dayVars, timeVars, bootVars>>

SaveInfo ==
    /\ spc = "info"
    /\ \/ /\ spc' = SaveAfterInfo(primary # Absent)
          /\ UNCHANGED <<lpc, ldata, lret, sdata, scaller, sret, hist>>
       \/ SaveReturns(SaveCaught, TRUE)
    /\ UNCHANGED <<fileVars, redVars, coordVars, fnVars, dayVars, timeVars, bootVars>>

SaveCopy ==
    \/ /\ spc = "copy"
       /\ \/ /\ spc' = "copying"
             /\ backup' = Unfinished
             /\ UNCHANGED <<dirExists, primary, lpc, ldata, lret, sdata, scaller, sret, hist>>
          \/ /\ SaveReturns(SaveCaught, TRUE)
             /\ UNCHANGED fileVars
       /\ UNCHANGED <<redVars, coordVars, fnVars, dayVars, timeVars, bootVars>>
    \/ /\ spc = "copying"
       /\ \/ /\ spc' = "write"
             /\ backup' = primary
             /\ UNCHANGED <<dirExists, primary, lpc, ldata, lret, sdata, scaller, sret, hist>>
          \/ /\ SaveReturns(SaveCaught, TRUE)
             /\ UNCHANGED fileVars
       /\ UNCHANGED <<redVars, coordVars, fnVars, dayVars, timeVars, bootVars>>

SaveWrite ==
    \/ /\ spc = "write"
       /\ \/ /\ spc' = "writing"
             /\ primary' = Unfinished
             /\ UNCHANGED <<dirExists, backup, lpc, ldata, lret, sdata, scaller, sret, hist>>
          \/ /\ SaveReturns(SaveCaught, TRUE)
             /\ UNCHANGED fileVars
       /\ UNCHANGED <<redVars, coordVars, fnVars, dayVars, timeVars, bootVars>>
    \/ /\ spc = "writing"
       /\ \/ /\ primary' = JsonStringify(sdata)
             /\ SaveReturns("true", FALSE)
             /\ UNCHANGED <<dirExists, backup>>
          \/ /\ SaveReturns(SaveCaught, TRUE)
             /\ UNCHANGED fileVars
       /\ UNCHANGED <<redVars, coordVars, fnVars, dayVars, timeVars, bootVars>>

----------------------------------------------------------------------------
(* utils/storage.js: loadData, one file-system call per step *)

\* loadData that never uses the primary file's text.
PrimaryNeverAccepted(content) == FALSE

\* The primary file's text is used when it parses and has the four keys.
PrimaryAccepted(content) ==
    Parses(content) /\ ValidStructure(JsonParse(content))

\* loadData that never uses the backup file.
BackupIgnored(content) == FALSE

\* The backup file's text is used when it parses.
BackupAccepted(content) == Parses(content)

\* loadData that returns the data without saving it.
LoadReturnsUnsaved(data, fault) ==
    /\ lpc' = "idle"
    /\ lret' = data
    /\ hist' = [hist EXCEPT !.just = "load", !.loaded = TRUE,
                            !.lfault = hist.lfault \/ fault]
    /\ UNCHANGED <<ldata, spc, sdata, scaller, sret>>

\* loadData calls saveData(data) and will return data when it has answered.
LoadSaves(data, fault) ==
    /\ lpc' = "saving"
    /\ ldata' = data
    /\ CallSave(data, "load")
    /\ hist' = [hist EXCEPT !.sprim0 = primary, !.sfault = FALSE,
                            !.lfault = hist.lfault \/ fault]
    /\ UNCHANGED lret

\* The outer catch block is entered.
LoadCaught(fault) ==
    /\ lpc' = "bInfo"
    /\ hist' = [hist EXCEPT !.lfault = hist.lfault \/ fault]
    /\ UNCHANGED <<ldata, lret, spc, sdata, scaller, sret>>

\* Calling loadData(): it runs up to its first await. `export` names the
\* export helper that called it, "none" when the provider did.
CallLoad(export) ==
    /\ lpc = "idle" /\ spc = "idle"
    /\ lpc' = "ensure"
    /\ lret' = NoDoc
    /\ hist' = [hist EXCEPT !.just = "none", !.lfault = FALSE,
                            !.lprim0 = primary, !.lback0 = backup,
                            !.lastOk = NoDoc,
                            !.saved = NoDoc, !.lsaved = hist.saved,
                            !.torn = IF hist.loaded THEN NoTorn ELSE hist.torn,
                            !.export = export, !.exported = NoDoc]
    /\ UNCHANGED <<ldata, spc, sdata, scaller, sret, fileVars, redVars, coordVars, fnVars, dayVars, timeVars, bootVars>>

StartLoad == CallLoad("none")

LoadEnsure ==
    /\ lpc = "ensure"
    /\ \/ /\ dirExists' = TRUE
          /\ lpc' = "info"
          /\ UNCHANGED <<primary, backup, ldata, lret, spc, sdata, scaller, sret, hist>>
       \/ /\ LoadCaught(TRUE)
          /\ UNCHANGED fileVars
    /\ UNCHANGED <<redVars, coordVars, fnVars, dayVars, timeVars, bootVars>>

LoadInfo ==
    /\ lpc = "info"
    /\ \/ /\ primary = Absent
          /\ LoadSaves(DEFAULT_DATA, FALSE)
       \/ /\ primary # Absent
          /\ lpc' = "read"
          /\ UNCHANGED <<ldata, lret, spc, sdata, scaller, sret, hist>>
       \/ LoadCaught(TRUE)
    /\ UNCHANGED <<fileVars, redVars, coordVars, fnVars, dayVars, timeVars, bootVars>>

LoadRead ==
    /\ lpc = "read"
    /\ \/ /\ PrimaryAccepted(primary)
          /\ lpc' = "idle"
          /\ lret' = JsonParse(primary)
          /\ hist' = [hist EXCEPT !.just = "load", !.loaded = TRUE]
          /\ UNCHANGED <<ldata, spc, sdata, scaller, sret>>
       \/ /\ ~PrimaryAccepted(primary)
          /\ LoadCaught(FALSE)
       \/ LoadCaught(TRUE)
    /\ UNCHANGED <<fileVars, redVars, coordVars, fnVars, dayVars, timeVars, bootVars>>

LoadBackupInfo ==
    /\ lpc = "bInfo"
    /\ \/ /\ backup # Absent
          /\ lpc' = "bRead"
          /\ UNCHANGED <<ldata, lret, spc, sdata, scaller, sret, hist>>
       \/ /\ backup = Absent
          /\ LoadSaves(DEFAULT_DATA, FALSE)
       \/ LoadSaves(DEFAULT_DATA, TRUE)
    /\ UNCHANGED <<fileVars, redVars, coordVars, fnVars, dayVars, timeVars, bootVars>>

LoadBackupRead ==
    /\ lpc = "bRead"
    /\ \/ /\ BackupAccepted(backup)
          /\ LoadSaves(JsonParse(backup), FALSE)
       \/ /\ ~BackupAccepted(backup)
          /\ LoadSaves(DEFAULT_DATA, FALSE)
       \/ LoadSaves(DEFAULT_DATA, TRUE)
    /\ UNCHANGED <<fileVars, redVars, coordVars, fnVars, dayVars, timeVars, bootVars>>

----------------------------------------------------------------------------
(* The store's callers, and the process being torn down *)

\* The provider saves a document once the initial load has finished.
StartSave ==
    /\ lpc = "idle" /\ spc = "idle"
    /\ hist.loaded
    /\ \E d \in SavedDocs : CallSave(d, "top")
    /\ hist' = [hist EXCEPT !.just = "none", !.sprim0 = primary,
                            !.sfault = FALSE, !.torn = NoTorn, !.saved = NoDoc,
                            !.export = "none", !.exported = NoDoc]
    /\ UNCHANGED <<lpc, ldata, lret, fileVars, redVars, coordVars, fnVars, dayVars, timeVars, bootVars>>

\* The process dies; the files stay as they are and the next process starts
\* with loadData.
Teardown ==
    /\ lpc' = "idle" /\ spc' = "idle"
    /\ sret' = "none"
    /\ lret' = NoDoc
    /\ hist' = [hist EXCEPT
          !.loaded = FALSE, !.just = "none", !.lastOk = NoDoc,
          !.export = "none", !.exported = NoDoc,
          !.torn = IF spc # "idle" /\ scaller = "top" /\ hist.lastOk # NoDoc
                   THEN [kind |-> "torn", doc |-> sdata, after |-> hist.lastOk]
                   ELSE NoTorn]
    /\ ldata' = NoDoc /\ sdata' = NoDoc /\ scaller' = "none"
    /\ UNCHANGED <<fileVars, redVars, coordVars, fnVars, dayVars, timeVars, bootVars>>

----------------------------------------------------------------------------
(* utils/storage.js: the export helpers, called from the export screen *)

\* What an export helper's catch block returns.
ExportCaught == [kind |-> "null"]

\* One CSV row per drive; a member the drive lacks is written as '' through
\* `drive.weather || ''`.
CsvRow(drive) ==
    [Date |-> drive.date,
     Duration |-> drive.duration,
     NightDrive |-> IF drive.isNightDrive THEN "Yes" ELSE "No",
     Weather |-> IF "weather" \in DOMAIN drive THEN drive.weather ELSE ""]

\* exportDrivesAsCSV's result for the document loadData returned; reading
\* drives.length of a document without drives throws into the catch block.
CsvOf(data) ==
    IF "drives" \notin DOMAIN data THEN ExportCaught
    ELSE IF Len(data.drives) = 0
         THEN [kind |-> "text", value |-> "No drives to export"]
         ELSE [kind |-> "csv",
               rows |-> [i \in 1..Len(data.drives) |-> CsvRow(data.drives[i])]]

\* handleExportJSON calls exportDataAsJSON, which awaits loadData().
ExportDataAsJSON ==
    /\ hist.loaded
    /\ CallLoad("json")

\* handleExportCSV calls exportDrivesAsCSV, which awaits loadData().
ExportDrivesAsCSV ==
    /\ hist.loaded
    /\ CallLoad("csv")

\* loadData has answered and the export helper returns its string.
ExportReturns ==
    /\ lpc = "idle" /\ spc = "idle"
    /\ hist.just = "load" /\ hist.export # "none"
    /\ hist' = [hist EXCEPT
          !.just = hist.export,
          !.export = "none",
          !.exported = IF hist.export = "json" THEN JsonStringify(lret)
                       ELSE CsvOf(lret)]
    /\ UNCHANGED <<lpc, ldata, lret, spc, sdata, scaller, sret, fileVars, redVars,
                   coordVars, fnVars, dayVars, timeVars, bootVars>>

----------------------------------------------------------------------------
(* contexts/DrivingContext.js: the provider's save effect *)

\* The in-memory document after n transitions.
MemDoc(n) == IF n = 0 THEN DEFAULT_DATA ELSE SavedDoc(n)

SetPc(i, pc) == saves' = [saves EXCEPT ![i].pc = pc]

\* utils/appInfo.js getAppVersion(), for a config that carries no version.
getAppVersion == "1.0.0"

\* The document the effect builds from a state: user, drives, streaks,
\* settings and the app's version.
DataToSave(s) ==
    [user |-> s.user, drives |-> s.drives, streaks |-> s.streaks,
     settings |-> s.settings, version |-> getAppVersion]

\* The state LOAD_DATA leaves for the document loadData returned, after
\* initializeData has reset the monthly freeze counter where it was due.
LoadedState(data) ==
    LET lastFreezeReset ==
            IF "lastFreezeReset" \in DOMAIN data.streaks
            THEN data.streaks.lastFreezeReset ELSE NullDate
        payload ==
            IF shouldResetMonthlyFreezeCounter(lastFreezeReset, today, tzWest)
            THEN [data EXCEPT !.streaks = Spread(data.streaks,
                     [freezeDaysThisMonth |-> 0, lastFreezeReset |-> today])]
            ELSE data
    IN ReduceLoadData(initialState, payload)

\* What the effect saves for the state of the present render.
EffectDoc ==
    IF loading THEN DataToSave(initialState)
    ELSE IF wiped THEN DataToSave(ReduceResetData(initialState))
    ELSE IF mem = 0 /\ lret # NoDoc THEN DataToSave(LoadedState(lret))
    ELSE MemDoc(mem)

\* An effect that saves on every run.
EffectSavesAlways(isLoading) == TRUE

\* if (!state.loading) { ... saveDataAsync(); }
EffectSaves(isLoading) == ~isLoading

\* A transition is dispatched: the reducer returns a new state. The screens
\* that dispatch are mounted once loading is false; after RESET_DATA the app
\* is back at onboarding. Nothing else is dispatched while a reset runs.
Transition ==
    /\ ~loading /\ ~wiped /\ cpc = "idle"
    /\ mem < MaxTransitions
    /\ mem' = mem + 1
    /\ dirty' = TRUE
    /\ UNCHANGED <<saves, cfail, fileVars, opVars, redVars, fnVars, dayVars, timeVars, bootVars>>

\* After the render the effect runs with the state of that render and calls
\* saveDataAsync() without awaiting it: the call joins those in flight.
SaveEffect ==
    /\ dirty
    /\ dirty' = FALSE
    /\ saves' = IF EffectSaves(loading)
                THEN Append(saves, [doc |-> EffectDoc, pc |-> "ensure"])
                ELSE saves
    /\ UNCHANGED <<mem, cfail, fileVars, opVars, redVars, fnVars, dayVars, timeVars, bootVars>>

\* One awaited file-system call of one of the saveData calls in flight answers.
EffectSaveStep(i) ==
    /\ \/ /\ saves[i].pc = "ensure"
          /\ dirExists' = TRUE
          /\ SetPc(i, "info")
          /\ UNCHANGED <<primary, backup>>
       \/ /\ saves[i].pc = "info"
          /\ SetPc(i, SaveAfterInfo(primary # Absent))
          /\ UNCHANGED fileVars
       \/ /\ saves[i].pc = "copy"
          /\ backup' = Unfinished
          /\ SetPc(i, "copying")
          /\ UNCHANGED <<dirExists, primary>>
       \/ /\ saves[i].pc = "copying"
          /\ backup' = primary
          /\ SetPc(i, "write")
          /\ UNCHANGED <<dirExists, primary>>
       \/ /\ saves[i].pc = "write"
          /\ primary' = Unfinished
          /\ SetPc(i, "writing")
          /\ UNCHANGED <<dirExists, backup>>
       \/ /\ saves[i].pc = "writing"
          /\ primary' = JsonStringify(saves[i].doc)
          /\ SetPc(i, "true")
          /\ UNCHANGED <<dirExists, backup>>
    /\ UNCHANGED <<mem, dirty, cfail, opVars, redVars, fnVars, dayVars, timeVars, bootVars>>

\* One awaited call of a saveData call in flight throws: it returns false.
EffectSaveFails(i) ==
    /\ saves[i].pc \in {"ensure", "info", "copy", "copying", "write", "writing"}
    /\ SetPc(i, SaveCaught)
    /\ cfail' = TRUE
    /\ UNCHANGED <<mem, dirty, fileVars, opVars, redVars, fnVars, dayVars, timeVars, bootVars>>

----------------------------------------------------------------------------
(* The provider's mount, and SettingsScreen.handleResetData *)

\* The load effect at mount: initializeData() runs up to `await loadData()`.
InitializeData ==
    /\ loading /\ ~hist.loaded /\ hist.just = "none"
    /\ StartLoad

\* loadData has answered: initializeData dispatches LOAD_DATA.
LoadDataDispatched ==
    /\ loading
    /\ lpc = "idle" /\ hist.just = "load"
    /\ loading' = FALSE
    /\ dirty' = TRUE
    /\ UNCHANGED <<mem, saves, cfail, cpc, wiped, fileVars, opVars, redVars, fnVars,
                   dayVars, timeVars>>

\* "Reset" is pressed in the confirmation: the handler calls clearAllData(),
\* which runs up to its first await. RESET_DATA counts as a transition.
ResetPressed ==
    /\ ~loading /\ ~wiped
    /\ mem < MaxTransitions
    /\ cpc = "idle"
    /\ cpc' = "ensure"
    /\ UNCHANGED <<loading, wiped, coordVars, fileVars, opVars, redVars, fnVars,
                   dayVars, timeVars>>

\* One awaited file-system call of clearAllData answers.
ClearAllDataStep ==
    /\ \/ /\ cpc = "ensure"
          /\ dirExists' = TRUE
          /\ cpc' = "info"
          /\ UNCHANGED <<primary, backup>>
       \/ /\ cpc = "info"
          /\ cpc' = IF primary # Absent THEN "delete" ELSE "bInfo"
          /\ UNCHANGED fileVars
       \/ /\ cpc = "delete"
          /\ primary' = Absent
          /\ cpc' = "bInfo"
          /\ UNCHANGED <<dirExists, backup>>
       \/ /\ cpc = "bInfo"
          /\ cpc' = IF backup # Absent THEN "bDelete" ELSE "true"
          /\ UNCHANGED fileVars
       \/ /\ cpc = "bDelete"
          /\ backup' = Absent
          /\ cpc' = "true"
          /\ UNCHANGED <<dirExists, primary>>
    /\ UNCHANGED <<loading, wiped, coordVars, opVars, redVars, fnVars, dayVars,
                   timeVars>>

\* One awaited call of clearAllData throws: its catch block returns false.
ClearAllDataFails ==
    /\ cpc \in {"ensure", "info", "delete", "bInfo", "bDelete"}
    /\ cpc' = "false"
    /\ UNCHANGED <<loading, wiped, coordVars, fileVars, opVars, redVars, fnVars,
                   dayVars, timeVars>>

\* clearAllData has returned, true or false: the handler calls resetData().
ResetDataDispatched ==
    /\ cpc \in {"true", "false"}
    /\ ~wiped
    /\ wiped' = TRUE
    /\ mem' = mem + 1
    /\ dirty' = TRUE
    /\ UNCHANGED <<loading, cpc, saves, cfail, fileVars, opVars, redVars,
                   fnVars, dayVars, timeVars>>

----------------------------------------------------------------------------
(* utils/streaks.js called on its own *)

NoAnswer == [fn |-> "none", value |-> 0]

\* The logs handed to the streak functions: up to MaxLogLen drives, in any
\* order, several on one day allowed.
SessionLogs ==
    UNION {{[i \in 1..n |-> [id |-> i, date |-> f[i], duration |-> 30,
                             isNightDrive |-> FALSE]] :
               f \in [1..n -> 0..MaxDate]} : n \in 0..MaxLogLen}

\* Array.prototype.sort on the caller's own array, most recent date first;
\* drives of one date keep their order.
RECURSIVE SortedInPlace(_)
SortedInPlace(drives) ==
    IF drives = <<>> THEN drives
    ELSE LET i == CHOOSE k \in 1..Len(drives) :
                      /\ \A j \in 1..Len(drives) : drives[j].date <= drives[k].date
                      /\ \A j \in 1..(k - 1) : drives[j].date < drives[k].date
             rest == [j \in 1..(Len(drives) - 1) |->
                         IF j < i THEN drives[j] ELSE drives[j + 1]]
         IN <<drives[i]>> \o SortedInPlace(rest)

\* The caller's array once calculateCurrentStreak has returned: filter() made
\* a new array and sort() reordered that one.
DrivesAfterCurrentStreak(drives) == drives

\* The caller's array once calculateLongestStreak has returned: map() and the
\* spread of the Set made new arrays, and sort() reordered the last of them.
DrivesAfterLongestStreak(drives) == drives

CallCurrentStreak ==
    /\ answer' = [fn |-> "current",
                  value |-> calculateCurrentStreak(sessions, today, tzWest)]
    /\ sessions' = DrivesAfterCurrentStreak(sessions)
    /\ UNCHANGED <<redVars, fileVars, opVars, coordVars, dayVars, timeVars, bootVars>>

CallLongestStreak ==
    /\ answer' = [fn |-> "longest", value |-> calculateLongestStreak(sessions)]
    /\ sessions' = DrivesAfterLongestStreak(sessions)
    /\ UNCHANGED <<redVars, fileVars, opVars, coordVars, dayVars, timeVars, bootVars>>

----------------------------------------------------------------------------
(* utils/time.js. A string is the sequence of its characters; the inputs  *)
(* are written with digits, ":", "-", " " and letters.                    *)

Digits == <<"0", "1", "2", "3", "4", "5", "6", "7", "8", "9">>
IsDigit(c) == \E i \in 1..10 : Digits[i] = c
DigitValue(c) == (CHOOSE i \in 1..10 : Digits[i] = c) - 1

\* JavaScript values of the arithmetic: a number, NaN, undefined.
Num(n) == [kind |-> "number", n |-> n]
NaN == [kind |-> "NaN"]
JsUndefined == [kind |-> "undefined"]

\* a * k, a + b, a >= b, a <= b, a > b: NaN and undefined make the sum NaN and
\* every comparison false.
Times(a, k) == IF a.kind = "number" THEN Num(a.n * k) ELSE NaN
Plus(a, b) == IF a.kind = "number" /\ b.kind = "number" THEN Num(a.n + b.n) ELSE NaN
Geq(a, b) == a.kind = "number" /\ b.kind = "number" /\ a.n >= b.n
Leq(a, b) == a.kind = "number" /\ b.kind = "number" /\ a.n <= b.n
Gt(a, b) == a.kind = "number" /\ b.kind = "number" /\ a.n > b.n

\* String.prototype.split(sep): the pieces between the separators.
RECURSIVE Split(_, _)
Split(text, sep) ==
    IF \A i \in 1..Len(text) : text[i] # sep
    THEN <<text>>
    ELSE LET i == CHOOSE k \in 1..Len(text) :
                      text[k] = sep /\ \A j \in 1..(k - 1) : text[j] # sep
         IN <<SubSeq(text, 1, i - 1)>> \o Split(SubSeq(text, i + 1, Len(text)), sep)

RECURSIVE Trim(_)
Trim(text) ==
    IF text = <<>> THEN text
    ELSE IF Head(text) = " " THEN Trim(Tail(text))
    ELSE IF text[Len(text)] = " " THEN Trim(SubSeq(text, 1, Len(text) - 1))
    ELSE text

RECURSIVE DecimalValue(_)
DecimalValue(text) ==
    IF text = <<>> THEN 0
    ELSE DecimalValue(SubSeq(text, 1, Len(text) - 1)) * 10 + DigitValue(text[Len(text)])

AllDigits(text) == text # <<>> /\ \A i \in 1..Len(text) : IsDigit(text[i])

\* Number(string): white space is trimmed, the empty string is 0, a signed
\* run of digits is its value, any other text of these characters is NaN.
Number(text) ==
    LET t == Trim(text)
    IN IF t = <<>> THEN Num(0)
       ELSE IF AllDigits(t) THEN Num(DecimalValue(t))
       ELSE IF Head(t) = "-" /\ AllDigits(Tail(t)) THEN Num(0 - DecimalValue(Tail(t)))
       ELSE NaN

\* const [hours, minutes] = time.split(':').map(Number); a piece that is not
\* there is undefined.
timeToMinutes(time) ==
    LET parts == Split(time, ":")
        mapped == [i \in 1..Len(parts) |-> Number(parts[i])]
        hours == mapped[1]
        minutes == IF Len(mapped) >= 2 THEN mapped[2] ELSE JsUndefined
    IN Plus(Times(hours, 60), minutes)

\* isNightTime whose window leaves out its two ends.
isNightTimeOpenEnded(time, nightStart, nightEnd) ==
    LET timeMinutes == timeToMinutes(time)
        startMinutes == timeToMinutes(nightStart)
        endMinutes == timeToMinutes(nightEnd)
    IN IF Gt(startMinutes, endMinutes)
       THEN Gt(timeMinutes, startMinutes) \/ Gt(endMinutes, timeMinutes)
       ELSE Gt(timeMinutes, startMinutes) /\ Gt(endMinutes, timeMinutes)

isNightTime(time, nightStart, nightEnd) ==
    LET timeMinutes == timeToMinutes(time)
        startMinutes == timeToMinutes(nightStart)
        endMinutes == timeToMinutes(nightEnd)
    IN IF Gt(startMinutes, endMinutes)
       THEN Geq(timeMinutes, startMinutes) \/ Leq(timeMinutes, endMinutes)
       ELSE Geq(timeMinutes, startMinutes) /\ Leq(timeMinutes, endMinutes)

\* HH:MM strings, as getCurrentTime and the settings screen produce them.
TwoDigits(n) == <<Digits[(n \div 10) + 1], Digits[(n % 10) + 1]>>
HHMM(h, m) == TwoDigits(h) \o <<":">> \o TwoDigits(m)

ClockHours == {0, 5, 6, 12, 18, 22, 23}
ClockMinutes == {0, 30}
WellFormedTimes == {HHMM(h, m) : h \in ClockHours, m \in ClockMinutes}

\* "", ":", "12", "12:", "ab:cd", "25:99", "12:60", "-1:00"
MalformedTimes ==
    {<<>>, <<":">>, <<"1", "2">>, <<"1", "2", ":">>,
     <<"a", "b", ":", "c", "d">>, <<"2", "5", ":", "9", "9">>,
     <<"1", "2", ":", "6", "0">>, <<"-", "1", ":", "0", "0">>}

NoArgs == [time |-> <<>>, nightStart |-> <<>>, nightEnd |-> <<>>]

TimeArgs ==
    [time : WellFormedTimes \cup MalformedTimes,
     nightStart : WellFormedTimes, nightEnd : WellFormedTimes]

CallIsNightTime ==
    /\ tanswer' = [fn |-> "isNightTime",
                   value |-> isNightTime(targs.time, targs.nightStart, targs.nightEnd)]
    /\ UNCHANGED <<targs, redVars, fileVars, opVars, coordVars, fnVars, dayVars, bootVars>>

CallTimeToMinutes ==
    /\ tanswer' = [fn |-> "timeToMinutes", value |-> timeToMinutes(targs.time)]
    /\ UNCHANGED <<targs, redVars, fileVars, opVars, coordVars, fnVars, dayVars, bootVars>>

----------------------------------------------------------------------------
(* The app over several days: logging, the dashboard's freeze day, restarts *)

\* LogDriveScreen.handleSkillsSubmit on a form mounted at the present moment.
DriveLogged ==
    /\ MainTabsShown
    /\ Len(state.drives) < MaxLogged
    /\ stamp' = stamp + 1
    /\ \E date \in UtcDates(today, tzWest) :
         state' = Dispatch(state, "ADD_DRIVE",
                           [id |-> stamp + 1, date |-> date,
                            duration |-> 30, isNightDrive |-> FALSE])
    /\ frozeSince' = FALSE
    /\ UNCHANGED <<today, tzWest, alerts, usedNow, fileVars, opVars, coordVars, fnVars, timeVars, bootVars>>

\* Midnight passes while the app keeps running.
DayPasses ==
    /\ today < LastDay
    /\ today' = today + 1
    /\ usedNow' = IF MonthOf(today + 1) # MonthOf(today) THEN 0 ELSE usedNow
    /\ UNCHANGED <<state, tzWest, stamp, alerts, frozeSince,
                   fileVars, opVars, coordVars, fnVars, timeVars, bootVars>>

\* DashboardScreen.handleFreezeDay up to its Alert.alert: the button is
\* rendered while shouldSuggestFreezeDay holds, the handler checks
\* canUseFreezeDay and puts the confirmation on screen.
FreezeDayPressed ==
    /\ MainTabsShown
    /\ shouldSuggestFreezeDay(state.streaks.lastDriveDate,
                              state.streaks.freezeDaysThisMonth, today, tzWest)
    /\ canUseFreezeDay(state.streaks.freezeDaysThisMonth)
    /\ alerts < MaxAlerts
    /\ state.streaks.freezeDaysUsed + alerts < MaxFreezeDaysUsed
    /\ alerts' = alerts + 1
    /\ UNCHANGED <<redVars, usedNow, frozeSince, fileVars, opVars, coordVars, fnVars, timeVars, bootVars>>

\* The confirmation's "Use Freeze Day" button: onPress calls useFreezeDay().
FreezeDayConfirmed ==
    /\ alerts > 0
    /\ alerts' = alerts - 1
    /\ state' = Dispatch(state, "USE_FREEZE_DAY", Null)
    /\ usedNow' = usedNow + 1
    /\ frozeSince' = TRUE
    /\ UNCHANGED <<today, tzWest, stamp, fileVars, opVars, coordVars, fnVars, timeVars, bootVars>>

\* The confirmation's "Cancel" button.
FreezeDayCancelled ==
    /\ alerts > 0
    /\ alerts' = alerts - 1
    /\ UNCHANGED <<redVars, usedNow, frozeSince, fileVars, opVars, coordVars, fnVars, timeVars, bootVars>>

\* The process is started again after the last state was saved:
\* initializeData loads the document, resets the monthly counter when
\* shouldResetMonthlyFreezeCounter says so, and dispatches LOAD_DATA.
AppRestarted ==
    /\ ~state.loading
    /\ \E resetDate \in UtcDates(today, tzWest) :
         LET data == [user |-> state.user, drives |-> state.drives,
                      streaks |-> state.streaks, settings |-> state.settings,
                      version |-> getAppVersion]
             checked ==
                 IF shouldResetMonthlyFreezeCounter(data.streaks.lastFreezeReset,
                                                    today, tzWest)
                 THEN [data EXCEPT !.streaks = Spread(data.streaks,
                          [freezeDaysThisMonth |-> 0, lastFreezeReset |-> resetDate])]
                 ELSE data
         IN state' = ReduceLoadData(initialState, checked)
    /\ alerts' = 0
    /\ UNCHANGED <<today, tzWest, stamp, usedNow, frozeSince,
                   fileVars, opVars, coordVars, fnVars, timeVars, bootVars>>

----------------------------------------------------------------------------
(* Specifications *)

FrozenRed == state = initialState /\ today = 0 /\ tzWest = FALSE /\ stamp = 0
FrozenFiles == dirExists = FALSE /\ primary = Absent /\ backup = Absent
FrozenOps ==
    /\ lpc = "idle" /\ ldata = NoDoc /\ lret = NoDoc
    /\ spc = "idle" /\ sdata = NoDoc /\ scaller = "none" /\ sret = "none"
    /\ hist = IdleHist
FrozenCoord == mem = 0 /\ dirty = FALSE /\ saves = <<>> /\ cfail = FALSE
FrozenFn == sessions = <<>> /\ answer = NoAnswer
FrozenDays == alerts = 0 /\ usedNow = 0 /\ frozeSince = FALSE
FrozenTime == targs = NoArgs /\ tanswer = NoAnswer
FrozenBoot == loading = FALSE /\ cpc = "idle" /\ wiped = FALSE

\* The reducer after initializeData on a first run.
Init ==
    /\ today = 0
    /\ stamp = 0
    /\ tzWest \in BOOLEAN
    /\ \E resetDate \in UtcDates(0, tzWest) :
         state = ReduceLoadData(initialState, FirstRunData(resetDate))
    /\ FrozenFiles /\ FrozenOps /\ FrozenCoord /\ FrozenFn /\ FrozenDays /\ FrozenTime /\ FrozenBoot

Next ==
    \/ HandleComplete
    \/ HandleSaveGoals
    \/ HandleUpdateSettings
    \/ HandleSkillsSubmit
    \/ UpdateDrive
    \/ HandleDeleteDrive
    \/ HandleFreezeDay
    \/ HandleResetData
    \/ ClockTick

Spec == Init /\ [][Next]_vars

\* The store at process start: whatever the files hold.
InitStore ==
    /\ dirExists \in BOOLEAN
    /\ primary \in FileContents
    /\ backup \in FileContents
    /\ ~dirExists => (primary = Absent /\ backup = Absent)
    /\ FrozenOps /\ FrozenRed /\ FrozenCoord /\ FrozenFn /\ FrozenDays /\ FrozenTime /\ FrozenBoot

NextStore ==
    \/ StartLoad
    \/ LoadEnsure
    \/ LoadInfo
    \/ LoadRead
    \/ LoadBackupInfo
    \/ LoadBackupRead
    \/ StartSave
    \/ SaveEnsure
    \/ SaveInfo
    \/ SaveCopy
    \/ SaveWrite
    \/ Teardown
    \/ ExportDataAsJSON
    \/ ExportDrivesAsCSV
    \/ ExportReturns

SpecStore == InitStore /\ [][NextStore]_vars

\* The provider once LOAD_DATA has been dispatched: the effect is due.
InitCoord ==
    /\ dirExists = TRUE
    /\ primary \in {Absent, Json(DEFAULT_DATA)}
    /\ backup = Absent
    /\ mem = 0 /\ dirty = TRUE /\ saves = <<>> /\ cfail = FALSE
    /\ FrozenOps /\ FrozenRed /\ FrozenFn /\ FrozenDays /\ FrozenTime /\ FrozenBoot

NextCoord ==
    \/ Transition
    \/ SaveEffect
    \/ \E i \in 1..Len(saves) : EffectSaveStep(i)
    \/ \E i \in 1..Len(saves) : EffectSaveFails(i)

SpecCoord == InitCoord /\ [][NextCoord]_vars

\* A log, a clock and a time zone for the streak functions.
InitStreak ==
    /\ today \in 0..MaxDate
    /\ tzWest \in BOOLEAN
    /\ sessions \in SessionLogs
    /\ answer = NoAnswer
    /\ state = initialState /\ stamp = 0
    /\ FrozenFiles /\ FrozenOps /\ FrozenCoord /\ FrozenDays /\ FrozenTime /\ FrozenBoot

NextStreak ==
    \/ CallCurrentStreak
    \/ CallLongestStreak

SpecStreak == InitStreak /\ [][NextStreak]_vars

\* The first run, followed over the days up to LastDay.
InitDays ==
    /\ today = 0
    /\ stamp = 0
    /\ tzWest \in BOOLEAN
    /\ \E resetDate \in UtcDates(0, tzWest) :
         state = ReduceLoadData(initialState, FirstRunData(resetDate))
    /\ FrozenDays
    /\ FrozenFiles /\ FrozenOps /\ FrozenCoord /\ FrozenFn /\ FrozenTime /\ FrozenBoot

NextDays ==
    \/ HandleComplete
    \/ DriveLogged
    \/ DayPasses
    \/ FreezeDayPressed
    \/ FreezeDayConfirmed
    \/ FreezeDayCancelled
    \/ AppRestarted

SpecDays == InitDays /\ [][NextDays]_vars


\* A time, a night window and no call made yet.
InitTime ==
    /\ targs \in TimeArgs
    /\ tanswer = NoAnswer
    /\ today = 0 /\ tzWest = FALSE /\ state = initialState /\ stamp = 0
    /\ FrozenFiles /\ FrozenOps /\ FrozenCoord /\ FrozenFn /\ FrozenDays /\ FrozenBoot

NextTime ==
    \/ CallIsNightTime
    \/ CallTimeToMinutes

SpecTime == InitTime /\ [][NextTime]_vars

\* A document found on the device at startup.
StoredDoc(n) ==
    [DEFAULT_DATA EXCEPT
        !.drives = <<[id |-> 0 - n, date |-> 0, duration |-> 90, isNightDrive |-> TRUE]>>,
        !.user.completedNightHours = 90]

\* The provider has just mounted: both effects are due, loading is true.
InitBoot ==
    /\ dirExists \in BOOLEAN
    /\ primary \in {Absent, Garbage, JsonStringify(StoredDoc(1))}
    /\ backup \in {Absent, JsonStringify(StoredDoc(2))}
    /\ ~dirExists => (primary = Absent /\ backup = Absent)
    /\ loading = TRUE /\ cpc = "idle" /\ wiped = FALSE
    /\ mem = 0 /\ dirty = TRUE /\ saves = <<>> /\ cfail = FALSE
    /\ FrozenOps /\ FrozenRed /\ FrozenFn /\ FrozenDays /\ FrozenTime

NextBoot ==
    \/ InitializeData
    \/ LoadEnsure
    \/ LoadInfo
    \/ LoadRead
    \/ LoadBackupInfo
    \/ LoadBackupRead
    \/ SaveEnsure
    \/ SaveInfo
    \/ SaveCopy
    \/ SaveWrite
    \/ LoadDataDispatched
    \/ Transition
    \/ SaveEffect
    \/ \E i \in 1..Len(saves) : EffectSaveStep(i)
    \/ \E i \in 1..Len(saves) : EffectSaveFails(i)
    \/ ResetPressed
    \/ ClearAllDataStep
    \/ ClearAllDataFails
    \/ ResetDataDispatched

SpecBoot == InitBoot /\ [][NextBoot]_vars

----------------------------------------------------------------------------
(* Properties *)

RECURSIVE MinutesOf(_, _, _)
MinutesOf(drives, indices, acc) ==
    IF indices = {} THEN acc
    ELSE LET i == CHOOSE x \in indices : TRUE
         IN MinutesOf(drives, indices \ {i}, acc + drives[i].duration)

LogMinutes(drives, night) ==
    MinutesOf(drives, {i \in 1..Len(drives) : drives[i].isNightDrive = night}, 0)

LongestNeverDecreases ==
    [][(HandleSkillsSubmit \/ UpdateDrive \/ HandleDeleteDrive)
         => state'.streaks.longest >= state.streaks.longest]_vars

\* C3: a loadData call that follows a teardown during saveData(d), itself
\* started after saveData(d0) had returned true, and that meets no failing
\* file-system call, returns d or d0.
LoadAfterTornSave ==
    (hist.just = "load" /\ hist.torn # NoTorn /\ ~hist.lfault)
        => JsonStringify(lret) \in {JsonStringify(hist.torn.doc),
                                    JsonStringify(hist.torn.after)}

\* C3 witness: the teardown left a half-written primary file and loadData
\* came back with d0.
LoadAfterTornSaveWitness ==
    /\ hist.just = "load" /\ hist.torn # NoTorn /\ ~hist.lfault
    /\ hist.lprim0 = Partial
    /\ JsonStringify(lret) = JsonStringify(hist.torn.after)
    /\ JsonStringify(hist.torn.after) # JsonStringify(hist.torn.doc)

\* C4: when loadData starts with a primary file that does not parse or lacks
\* a required key and a backup file holding a valid document B, and no
\* file-system call fails, it returns B and leaves B in the primary file.
PromotesValidBackup ==
    (/\ hist.just = "load" /\ ~hist.lfault
     /\ hist.lprim0 # Absent /\ ~HoldsValid(hist.lprim0)
     /\ HoldsValid(hist.lback0))
        => /\ lret = JsonParse(hist.lback0)
           /\ primary = JsonStringify(JsonParse(hist.lback0))

\* C4 witness: the primary file parsed but lacked a key, and the backup's
\* document was returned.
PromotesValidBackupWitness ==
    /\ hist.just = "load" /\ ~hist.lfault
    /\ Parses(hist.lprim0) /\ ~HoldsValid(hist.lprim0)
    /\ HoldsValid(hist.lback0)
    /\ lret = JsonParse(hist.lback0)

\* C5: after a saveData(d) that returned true and found a primary file, the
\* backup file holds what the primary file held when the call started and
\* the primary file holds the serialization of d.
BackupIsPreviousPrimary ==
    (spc = "idle" /\ sret = "true" /\ hist.sprim0 # Absent)
        => /\ backup = hist.sprim0
           /\ primary = JsonStringify(sdata)

\* C5 witness: a save replaced one valid document by another.
BackupIsPreviousPrimaryWitness ==
    /\ spc = "idle" /\ sret = "true"
    /\ HoldsValid(hist.sprim0)
    /\ backup = hist.sprim0
    /\ primary # backup

\* C6: while one saveData call of the effect is between the start of its
\* backup copy and the end of its primary write, no other one is copying or
\* writing.
SavesNeverInterleave ==
    \A i, j \in 1..Len(saves) :
        (i # j /\ saves[i].pc \in {"copying", "write", "writing"})
            => saves[j].pc \notin {"copying", "writing"}

\* C7: once the effect has run for the latest state and every saveData call
\* it started has returned true, the primary file holds the in-memory
\* document.
LastStateIsPersisted ==
    (/\ ~dirty /\ Len(saves) > 0
     /\ \A i \in 1..Len(saves) : saves[i].pc = "true")
        => primary = JsonStringify(MemDoc(mem))

\* C8: every document loadData returns has user, drives, streaks and
\* settings.
LoadReturnsValidated ==
    hist.just = "load" => ValidStructure(lret)

\* C9: loadData always returns, and returns the default document when
\* neither file held a valid document.
LoadFallsBackToDefault ==
    hist.just = "load" =>
        /\ lret # NoDoc
        /\ (~HoldsValid(hist.lprim0) /\ ~HoldsValid(hist.lback0))
              => lret = DEFAULT_DATA

\* C10: saveData hands its caller true or false; false whenever one of its
\* file-system calls failed, true only with the document written to the
\* primary file.
SaveNeverRaises ==
    /\ sret \in {"none", "true", "false"}
    /\ (spc = "idle" /\ sret # "none" /\ hist.sfault) => sret = "false"
    /\ (spc = "idle" /\ sret = "true") => primary = JsonStringify(sdata)

\* C10 witness: the primary write failed half-way and saveData returned false.
SaveNeverRaisesWitness ==
    /\ spc = "idle" /\ sret = "false" /\ hist.sfault
    /\ primary = Partial

\* A document all of whose members are JSON values.
JsonValued(d) == JsonParse(JsonStringify(d)) = d

CurrentAtMostLongest ==
    state.streaks.current <= state.streaks.longest

\* C12 witness: two drives on consecutive days give a current streak of 2,
\* equal to the longest.
CurrentAtMostLongestWitness ==
    /\ Len(state.drives) = 2
    /\ state.streaks.current = 2
    /\ state.streaks.longest = 2

\* The session dates of a log, the latest of them, and the number of
\* consecutive calendar days with a session that end on day e.
DatesOf(log) == {log[i].date : i \in 1..Len(log)}

LatestOf(D) == CHOOSE x \in D : \A y \in D : y <= x

RECURSIVE RunEnding(_, _)
RunEnding(D, e) == IF e \notin D THEN 0 ELSE 1 + RunEnding(D, e - 1)

LongestRun(D) ==
    IF D = {} THEN 0
    ELSE LET runs == {RunEnding(D, e) : e \in D}
         IN CHOOSE n \in runs : \A m \in runs : m <= n

\* C13: when the most recent session date is yesterday, calculateCurrentStreak
\* returns the number of consecutive calendar days with a session that end
\* yesterday.
StreakEndingYesterdayCounted ==
    (/\ answer.fn = "current" /\ sessions # <<>>
     /\ LatestOf(DatesOf(sessions)) = today - 1)
        => answer.value = RunEnding(DatesOf(sessions), today - 1)

\* C14: when the most recent session date is today, calculateCurrentStreak
\* returns the number of consecutive calendar days with a session that end
\* today.
StreakEndingTodayCounted ==
    (/\ answer.fn = "current" /\ sessions # <<>>
     /\ LatestOf(DatesOf(sessions)) = today)
        => answer.value = RunEnding(DatesOf(sessions), today)

\* C15: calculateCurrentStreak returns 0 for an empty log and for a log whose
\* most recent session date is earlier than yesterday.
StaleStreakIsZero ==
    (/\ answer.fn = "current"
     /\ \/ sessions = <<>>
        \/ LatestOf(DatesOf(sessions)) < today - 1)
        => answer.value = 0

\* C15 witness: three sessions on two consecutive days, the later of them
\* two days ago, and the answer 0.
StaleStreakIsZeroWitness ==
    /\ answer.fn = "current" /\ answer.value = 0
    /\ Len(sessions) = 3
    /\ DatesOf(sessions) = {today - 3, today - 2}

\* C16: calculateLongestStreak returns the length of the longest run of
\* consecutive calendar days among the session dates, 0 for an empty log.
LongestIsLongestRun ==
    answer.fn = "longest" => answer.value = LongestRun(DatesOf(sessions))

\* C16 witness: four sessions on three dates, two of them consecutive and
\* later than the third, and the answer 2.
LongestIsLongestRunWitness ==
    /\ answer.fn = "longest" /\ answer.value = 2
    /\ Len(sessions) = 4
    /\ DatesOf(sessions) = {0, 3, 4}
    /\ sessions[1].date = 4

\* C17: freeze days used through the dashboard's handler never take
\* streaks.freezeDaysThisMonth above 10, also when the handler runs again
\* while an earlier confirmation is still on screen.
FreezeCapRespected ==
    state.streaks.freezeDaysThisMonth <= MaxFreezeDaysPerMonth

\* C18: whenever freeze-day eligibility can be checked, freezeDaysThisMonth
\* is the number of freeze days used in the calendar month of today, and the
\* monthly reset leaves freezeDaysUsed alone.
MonthlyCounterIsCurrent ==
    [][/\ MainTabsShown' => state'.streaks.freezeDaysThisMonth = usedNow'
       /\ AppRestarted => state'.streaks.freezeDaysUsed = state.streaks.freezeDaysUsed]_vars

\* C19: USE_FREEZE_DAY adds no session, and a drive logged two calendar days
\* after the previous one, with a freeze day used in between, leaves
\* streaks.current at least what it was.
FreezePreservesStreak ==
    [][/\ FreezeDayConfirmed => state'.drives = state.drives
       /\ (/\ DriveLogged /\ frozeSince /\ state.drives # <<>>
           /\ LatestOf(DatesOf(state'.drives))
                 = LatestOf(DatesOf(state.drives)) + 2)
             => state'.streaks.current >= state.streaks.current]_vars

\* C20: in every state shown after loading, streaks.current is what
\* calculateCurrentStreak yields for the logged drives at the present date.
CurrentStreakIsFresh ==
    ~state.loading =>
        state.streaks.current = calculateCurrentStreak(state.drives, today, tzWest)

\* The drives ADD_DRIVE can be handed next: a fresh id, any form date.
NextDrives ==
    {[id |-> stamp + 1, date |-> date, duration |-> duration, isNightDrive |-> isNight] :
        date \in FormDates, duration \in Durations, isNight \in BOOLEAN}

\* C21: from every reachable state, ADD_DRIVE(d) with a fresh id raises the
\* total of d's kind by d.duration / 60 and leaves the other total alone, and
\* DELETE_DRIVE(d.id) right after it restores both totals.
AddThenDeleteRestoresTotals ==
    \A d \in NextDrives :
        LET added == ReduceAddDrive(state, d, today, tzWest)
            deleted == ReduceDeleteDrive(added, d.id, today, tzWest)
        IN /\ added.user.completedDayHours = state.user.completedDayHours
                  + (IF d.isNightDrive THEN 0 ELSE d.duration)
           /\ added.user.completedNightHours = state.user.completedNightHours
                  + (IF d.isNightDrive THEN d.duration ELSE 0)
           /\ deleted.user.completedDayHours = state.user.completedDayHours
           /\ deleted.user.completedNightHours = state.user.completedNightHours

\* C21 witness: the second drive ever added was deleted again and the drive
\* logged before it is still counted.
AddThenDeleteRestoresTotalsWitness ==
    /\ stamp = 2
    /\ Len(state.drives) = 1
    /\ state.drives[1].id = 1
    /\ state.user.completedDayHours + state.user.completedNightHours
          = state.drives[1].duration

\* Payloads of addDrive / updateDrive whose duration is zero or negative.
InvalidDurations == {0, -30}

InvalidDrives(ids) ==
    {[id |-> id, date |-> date, duration |-> duration, isNightDrive |-> isNight] :
        id \in ids, date \in FormDates, duration \in InvalidDurations,
        isNight \in BOOLEAN}

\* C22: an ADD_DRIVE or UPDATE_DRIVE whose payload has a zero or negative
\* duration is rejected: the state after the transition is the state before.
InvalidPayloadRejected ==
    MainTabsShown =>
        /\ \A d \in InvalidDrives({stamp + 1}) :
               Dispatch(state, "ADD_DRIVE", d) = state
        /\ \A d \in InvalidDrives(DriveIds(state.drives)) :
               Dispatch(state, "UPDATE_DRIVE", d) = state

\* C23: when an export helper returns, the primary file and the backup file
\* are what they were when it was called, absent or corrupt files included.
ExportsLeaveStoreAlone ==
    hist.just \in {"json", "csv"} =>
        /\ primary = hist.lprim0
        /\ backup = hist.lback0

\* Order of two HH:MM strings as times of day, read off their characters.
Before(a, b) ==
    \E i \in 1..Len(a) :
        /\ \A j \in 1..(i - 1) : a[j] = b[j]
        /\ a[i] # b[i]
        /\ DigitValue(a[i]) < DigitValue(b[i])

NotAfter(a, b) == a = b \/ Before(a, b)

\* C24: for HH:MM strings, isNightTime is true exactly when the time is at or
\* after nightStart or at or before nightEnd if the window wraps midnight
\* (nightStart after nightEnd), and when it lies between nightStart and
\* nightEnd otherwise, both ends included.
NightTimeIsWindow ==
    (tanswer.fn = "isNightTime" /\ targs.time \in WellFormedTimes) =>
        tanswer.value =
            IF Before(targs.nightEnd, targs.nightStart)
            THEN NotAfter(targs.nightStart, targs.time)
                     \/ NotAfter(targs.time, targs.nightEnd)
            ELSE NotAfter(targs.nightStart, targs.time)
                     /\ NotAfter(targs.time, targs.nightEnd)

\* C24 witness: 05:00 asked about the window 22:00 to 05:00, its closing end,
\* is night.
NightTimeIsWindowWitness ==
    /\ tanswer.fn = "isNightTime"
    /\ targs = [time |-> HHMM(5, 0), nightStart |-> HHMM(22, 0),
                nightEnd |-> HHMM(5, 0)]
    /\ tanswer.value = TRUE

\* C25: timeToMinutes gives hours * 60 + minutes for an HH:MM string and an
\* error, never a number, for a malformed one.
MalformedTimeIsAnError ==
    tanswer.fn = "timeToMinutes" =>
        IF targs.time \in WellFormedTimes
        THEN \E h \in ClockHours, m \in ClockMinutes :
                 targs.time = HHMM(h, m) /\ tanswer.value = Num(h * 60 + m)
        ELSE tanswer.value.kind = "error"

\* What the streak function named fn returns for a log at the present clock.
StreakOf(fn, log) ==
    IF fn = "current" THEN calculateCurrentStreak(log, today, tzWest)
    ELSE calculateLongestStreak(log)

\* Every log of SessionLogs whose dates are exactly D.
LogsWithDates(D) ==
    UNION {{[i \in 1..n |-> [id |-> i, date |-> f[i], duration |-> 30,
                             isNightDrive |-> FALSE]] :
               f \in {g \in [1..n -> D] : {g[i] : i \in 1..n} = D}} :
           n \in 0..MaxLogLen}

PromotionKeepsACopy ==
    (/\ lpc # "idle" \/ hist.just = "load"
     /\ hist.lprim0 # Absent /\ ~PrimaryAccepted(hist.lprim0)
     /\ HoldsValid(hist.lback0))
        => (primary = hist.lback0 \/ backup = hist.lback0)

\* C28: streaks.lastDriveDate is the latest date among the drives in the
\* log, and null when the log is empty.
LastDriveDateIsLatest ==
    state.streaks.lastDriveDate =
        IF Len(state.drives) = 0 THEN NullDate
        ELSE LatestOf(DatesOf(state.drives))

HasDrives(content) ==
    /\ Parses(content)
    /\ "drives" \in DOMAIN JsonParse(content)
    /\ Len(JsonParse(content).drives) > 0

\* C30: after clearAllData has deleted both files and RESET_DATA has been
\* dispatched, once the effect has run and every saveData call has returned true,
\* neither file holds a drive recorded before the reset.
ResetLeavesNoOldDrive ==
    (/\ wiped /\ cpc = "true" /\ ~dirty
     /\ \A i \in 1..Len(saves) : saves[i].pc = "true")
        => (~HasDrives(primary) /\ ~HasDrives(backup))

====
